---- MODULE Spec2Model ----
(***************************************************************************)
(* Invoice extraction: the upload handler of main.py and the four-stage    *)
(* pipeline of invoice_processor.py (load, classify pages, merge           *)
(* multi-page invoices, remove duplicates, format).                        *)
(*                                                                         *)
(* Data.  A Python dict is a record; a key the dict does not hold is the   *)
(* value None, which is what dict.get(key) gives for it.  A number is      *)
(* written by its JSON literal ("0", "1180"); no field of the model holds  *)
(* a string that looks like a number, so "0" is always the number zero and *)
(* "" is always the empty string.                                          *)
(***************************************************************************)
EXTENDS Integers, Sequences, FiniteSets, TLC

VARIABLES
    pc,                \* position of the request in extract_invoices / process_invoice_pdf
    tmp_exists,        \* the NamedTemporaryFile(delete=False) is on disk
    pages_data,        \* load_and_split_pdf: page numbers of the pages that rendered
    idx,               \* extract_invoices_from_pages: next index into pages_data
    replies,           \* what the classification service answered, page by page
    extracted,         \* extracted_invoices
    merged,            \* merged_invoices
    deduped,           \* deduped_invoices
    duplicates_count,  \* deduplicate_invoices: duplicates_count
    warnings,          \* the "Warning: ..." lines printed so far
    result,            \* the dict process_invoice_pdf returns
    error,             \* the exception process_invoice_pdf raises
    response           \* the JSONResponse of extract_invoices

vars == <<pc, tmp_exists, pages_data, idx, replies, extracted, merged, deduped,
          duplicates_count, warnings, result, error, response>>

\* Bounds of the model.
MaxPages == 3
MaxLen == 3

None == "<None>"

Range(s) == {s[i] : i \in 1..Len(s)}

Front(s) == SubSeq(s, 1, Len(s) - 1)

Last(s) == s[Len(s)]

\* A test that takes every value a page holds, zero and "" included.
TruthyIfPresent(v) == v # None

\* Python truthiness of a scalar: None, "" and 0 are false.
Truthy(v) == v \notin {None, "", "0"}

EmptyDict == [k \in {} |-> None]

\* dict.update
DictUpdate(a, b) ==
    [k \in (DOMAIN a) \cup (DOMAIN b) |-> IF k \in DOMAIN b THEN b[k] ELSE a[k]]

\* d[key] = value
DictSet(d, key, value) ==
    [k \in (DOMAIN d) \cup {key} |-> IF k = key THEN value ELSE d[k]]

(***************************************************************************)
(* The answers of the classification service.                              *)
(***************************************************************************)
Item(description, hsn_sac, quantity, rate, amount) ==
    [description |-> description, hsn_sac |-> hsn_sac, quantity |-> quantity,
     rate |-> rate, unit |-> "pcs", amount |-> amount]

Widget == Item("Widget", "8471", "2", "100", "200")
WidgetAgain == Item("Widget", "8471", "2", "100", "999")
Gadget == Item("Gadget", "8471", "1", "300", "300")
WidgetNoHsn == Item("Widget", None, "2", "100", "200")

BaseInvoice ==
    [type |-> "invoice", invoice_num |-> "INV-1", vendor_name |-> "Acme",
     invoice_date |-> "2024-01-01", line_items |-> <<Widget, Gadget>>,
     subtotal |-> "1000", tax_breakdown |-> [cgst |-> "90"], total |-> "1180"]

InvoiceDicts ==
    {BaseInvoice}
    \cup {[BaseInvoice EXCEPT !.invoice_num = v] : v \in {None, ""}}
    \cup {[BaseInvoice EXCEPT !.vendor_name = v] : v \in {None, ""}}
    \cup {[BaseInvoice EXCEPT !.invoice_date = v] : v \in {None, ""}}
    \cup {[BaseInvoice EXCEPT !.total = v] : v \in {None, "0", "500"}}
    \cup {[BaseInvoice EXCEPT !.subtotal = v] : v \in {"", "900"}}
    \cup {[BaseInvoice EXCEPT !.line_items = v] :
            v \in {<<>>, <<WidgetNoHsn>>, <<WidgetAgain, WidgetNoHsn>>}}
    \cup {[BaseInvoice EXCEPT !.tax_breakdown = v] :
            v \in {EmptyDict, [cgst |-> "95", igst |-> "0"]}}

NonInvoiceDict == [type |-> "non_invoice"]

\* kind: json_object (the text parses to a dict), json_other (it parses to
\* something else, a list say), unparsable (json.loads fails), connection_error
\* (requests raises ConnectionError), other_error (a timeout, an HTTP status).
Replies ==
    {[kind |-> "json_object", data |-> d] : d \in InvoiceDicts \cup {NonInvoiceDict}}
    \cup {[kind |-> k, data |-> NonInvoiceDict] :
            k \in {"json_other", "unparsable", "connection_error", "other_error"}}

\* A call_ollama whose last except clause also takes the connection error.
call_ollama_swallowing(reply) ==
    IF reply.kind = "json_object"
    THEN [raised |-> FALSE, is_dict |-> TRUE, value |-> reply.data, warned |-> FALSE]
    ELSE [raised |-> FALSE, is_dict |-> TRUE, value |-> NonInvoiceDict,
          warned |-> reply.kind \in {"connection_error", "other_error"}]

\* call_ollama: what it returns or raises, and whether it prints a warning.
call_ollama(reply) ==
    CASE reply.kind = "json_object" ->
            [raised |-> FALSE, is_dict |-> TRUE, value |-> reply.data, warned |-> FALSE]
      [] reply.kind = "json_other" ->
            [raised |-> FALSE, is_dict |-> FALSE, value |-> NonInvoiceDict, warned |-> FALSE]
      [] reply.kind = "connection_error" ->
            [raised |-> TRUE, is_dict |-> FALSE, value |-> NonInvoiceDict, warned |-> FALSE]
      [] reply.kind = "unparsable" ->
            [raised |-> FALSE, is_dict |-> TRUE, value |-> NonInvoiceDict, warned |-> FALSE]
      [] OTHER ->
            [raised |-> FALSE, is_dict |-> TRUE, value |-> NonInvoiceDict, warned |-> TRUE]

(***************************************************************************)
(* merge_multipage_invoices                                                *)
(***************************************************************************)
\* A key that leaves the date out.
MergeKeyNoDate(inv) == <<inv.invoice_num, inv.vendor_name>>

MergeKey(inv) == <<inv.invoice_num, inv.vendor_name, inv.invoice_date>>

\* The keys of a dict built by insertion, in insertion order.
RECURSIVE GroupKeys(_)
GroupKeys(invs) ==
    IF invs = <<>> THEN <<>>
    ELSE LET before == GroupKeys(Front(invs))
             key == MergeKey(Last(invs))
         IN  IF key \in Range(before) THEN before ELSE Append(before, key)

Grouped(invs, key) == SelectSeq(invs, LAMBDA inv : MergeKey(inv) = key)

\* A key that also tells line items apart by their amount.
ItemKeyWithAmount(item) ==
    <<item.description, item.hsn_sac, item.quantity, item.rate, item.amount>>

ItemKey(item) == <<item.description, item.hsn_sac, item.quantity, item.rate>>

RECURSIVE UniqueItems(_)
UniqueItems(items) ==
    IF items = <<>> THEN <<>>
    ELSE LET before == UniqueItems(Front(items))
             item == Last(items)
         IN  IF ItemKey(item) \in {ItemKey(items[i]) : i \in 1..(Len(items) - 1)}
             THEN before ELSE Append(before, item)

\* One turn of "for page_inv in pages".
MergePage(acc, page_inv) ==
    [acc EXCEPT
        !.line_items = @ \o page_inv.line_items,
        !.tax_breakdown = IF DOMAIN page_inv.tax_breakdown # {}
                          THEN DictUpdate(@, page_inv.tax_breakdown) ELSE @,
        !.subtotal = IF Truthy(page_inv.subtotal) THEN page_inv.subtotal ELSE @,
        !.total = IF Truthy(page_inv.total) THEN page_inv.total ELSE @]

RECURSIVE MergePages(_, _)
MergePages(acc, pages) ==
    IF pages = <<>> THEN acc
    ELSE MergePages(MergePage(acc, Head(pages)), Tail(pages))

MergeGroup(pages) ==
    LET seed == [pages[1] EXCEPT !.line_items = <<>>, !.tax_breakdown = EmptyDict]
        all == MergePages(seed, pages)
    IN  [all EXCEPT !.line_items = UniqueItems(@)]

merge_multipage_invoices(extracted_invoices) ==
    LET keys == GroupKeys(extracted_invoices)
    IN  [g \in 1..Len(keys) |-> MergeGroup(Grouped(extracted_invoices, keys[g]))]

(***************************************************************************)
(* deduplicate_invoices                                                    *)
(***************************************************************************)
\* A key that leaves the total out.
DedupKeyNoTotal(inv) == <<inv.invoice_num, inv.vendor_name, inv.invoice_date>>

\* A key that leaves the invoice number out.
DedupKeyNoInvoiceNum(inv) == <<inv.vendor_name, inv.invoice_date, inv.total>>

DedupKey(inv) == <<inv.invoice_num, inv.vendor_name, inv.invoice_date, inv.total>>

DedupStart == [seen_keys |-> {}, deduped_invoices |-> <<>>, duplicates_count |-> 0]

\* A turn that forgets the key of the duplicate it drops.
DedupStepForgetful(acc, inv) ==
    IF DedupKey(inv) \notin acc.seen_keys
    THEN [acc EXCEPT !.seen_keys = @ \cup {DedupKey(inv)},
                     !.deduped_invoices = Append(@, inv)]
    ELSE [acc EXCEPT !.seen_keys = @ \ {DedupKey(inv)},
                     !.duplicates_count = @ + 1]

\* One turn of "for inv in merged_invoices".
DedupStep(acc, inv) ==
    IF DedupKey(inv) \notin acc.seen_keys
    THEN [acc EXCEPT !.seen_keys = @ \cup {DedupKey(inv)},
                     !.deduped_invoices = Append(@, inv)]
    ELSE [acc EXCEPT !.duplicates_count = @ + 1]

RECURSIVE DedupLoop(_, _)
DedupLoop(acc, invs) ==
    IF invs = <<>> THEN acc
    ELSE DedupLoop(DedupStep(acc, Head(invs)), Tail(invs))

\* The list returned, and the count the function prints.
deduplicate_invoices(merged_invoices) == DedupLoop(DedupStart, merged_invoices)

(***************************************************************************)
(* format_as_markdown: one section per invoice (the header's three fields, *)
(* one row per line item, subtotal and total).  The number formatting is   *)
(* not modelled.                                                           *)
(***************************************************************************)
GetOr(v, default) == IF v = None THEN default ELSE v

Section(inv) ==
    [header |-> <<GetOr(inv.invoice_num, "N/A"), GetOr(inv.vendor_name, "N/A"),
                  GetOr(inv.invoice_date, "N/A")>>,
     rows |-> [i \in 1..Len(inv.line_items) |-> inv.line_items[i].description],
     subtotal |-> GetOr(inv.subtotal, "0"),
     total |-> GetOr(inv.total, "0")]

format_as_markdown(deduped_invoices) ==
    [i \in 1..Len(deduped_invoices) |-> Section(deduped_invoices[i])]

(***************************************************************************)
(* The request: extract_invoices calling process_invoice_pdf.              *)
(***************************************************************************)
NoResult == [status |-> "none"]

Init ==
    /\ pc = "upload"
    /\ tmp_exists = FALSE
    /\ pages_data = <<>>
    /\ idx = 1
    /\ replies = <<>>
    /\ extracted = <<>>
    /\ merged = <<>>
    /\ deduped = <<>>
    /\ duplicates_count = 0
    /\ warnings = <<>>
    /\ result = NoResult
    /\ error = None
    /\ response = NoResult

\* extract_invoices: the upload is written to a temporary file that outlives
\* its "with" block.
CreateTempFile ==
    /\ pc = "upload"
    /\ tmp_exists' = TRUE
    /\ pc' = "load"
    /\ UNCHANGED <<pages_data, idx, replies, extracted, merged, deduped,
                   duplicates_count, warnings, result, error, response>>

\* The ascending sequence of the members of a set of page numbers.
RECURSIVE Ascending(_)
Ascending(S) ==
    IF S = {} THEN <<>>
    ELSE LET m == CHOOSE x \in S : \A y \in S : y <= x
         IN  Append(Ascending(S \ {m}), m)

\* load_and_split_pdf: the document does not open, or it has n pages of which
\* some render; a page that does not render is warned about and left out.
LoadPdf ==
    /\ pc = "load"
    /\ \/ /\ error' = "Failed to load PDF"
          /\ pc' = "raised"
          /\ UNCHANGED <<pages_data, warnings>>
       \/ \E n \in 0..MaxPages : \E rendered \in SUBSET (1..n) :
            /\ pages_data' = Ascending(rendered)
            /\ warnings' = [i \in 1..(n - Cardinality(rendered)) |->
                              [kind |-> "page",
                               page_num |-> Ascending((1..n) \ rendered)[i]]]
            /\ pc' = IF rendered = {} THEN "merge" ELSE "extract"
            /\ UNCHANGED error
    /\ UNCHANGED <<tmp_exists, idx, replies, extracted, merged, deduped,
                   duplicates_count, result, response>>

\* extract_invoices_from_pages: one turn of "for page in pages_data".
ExtractPage ==
    /\ pc = "extract"
    /\ \E reply \in Replies :
         LET page_num == pages_data[idx]
             out == call_ollama(reply)
         IN  /\ replies' = Append(replies, [page_num |-> page_num, kind |-> reply.kind])
             /\ IF out.raised
                THEN /\ error' = "Could not connect to Ollama"
                     /\ pc' = "raised"
                     /\ UNCHANGED <<idx, extracted, warnings>>
                ELSE IF ~out.is_dict
                THEN /\ error' = "AttributeError"
                     /\ pc' = "raised"
                     /\ UNCHANGED <<idx, extracted, warnings>>
                ELSE /\ extracted' =
                          IF out.value.type = "invoice"
                          THEN Append(extracted, DictSet(out.value, "source_page", page_num))
                          ELSE extracted
                     /\ warnings' =
                          IF out.warned
                          THEN Append(warnings, [kind |-> "ollama", page_num |-> page_num])
                          ELSE warnings
                     /\ idx' = idx + 1
                     /\ pc' = IF idx = Len(pages_data) THEN "merge" ELSE "extract"
                     /\ UNCHANGED error
    /\ UNCHANGED <<tmp_exists, pages_data, merged, deduped, duplicates_count,
                   result, response>>

Merge ==
    /\ pc = "merge"
    /\ merged' = merge_multipage_invoices(extracted)
    /\ pc' = "dedup"
    /\ UNCHANGED <<tmp_exists, pages_data, idx, replies, extracted, deduped,
                   duplicates_count, warnings, result, error, response>>

Dedup ==
    /\ pc = "dedup"
    /\ LET out == deduplicate_invoices(merged)
       IN  /\ deduped' = out.deduped_invoices
           /\ duplicates_count' = out.duplicates_count
    /\ pc' = "format"
    /\ UNCHANGED <<tmp_exists, pages_data, idx, replies, extracted, merged,
                   warnings, result, error, response>>

Format ==
    /\ pc = "format"
    /\ result' = [status |-> "returned", invoices |-> deduped,
                  markdown |-> format_as_markdown(deduped)]
    /\ pc' = "return"
    /\ UNCHANGED <<tmp_exists, pages_data, idx, replies, extracted, merged, deduped,
                   duplicates_count, warnings, error, response>>

\* extract_invoices after process_invoice_pdf returned: unlink, then answer.
RespondSuccess ==
    /\ pc = "return"
    /\ tmp_exists' = FALSE
    /\ response' = [status |-> "success", invoices |-> result.invoices,
                    markdown |-> result.markdown, count |-> Len(result.invoices)]
    /\ pc' = "responded"
    /\ UNCHANGED <<pages_data, idx, replies, extracted, merged, deduped,
                   duplicates_count, warnings, result, error>>

\* extract_invoices when process_invoice_pdf raised: the except clause answers.
RespondError ==
    /\ pc = "raised"
    /\ response' = [status |-> "error", message |-> error]
    /\ pc' = "responded"
    /\ UNCHANGED <<tmp_exists, pages_data, idx, replies, extracted, merged, deduped,
                   duplicates_count, warnings, result, error>>

Next ==
    \/ CreateTempFile
    \/ LoadPdf
    \/ ExtractPage
    \/ Merge
    \/ Dedup
    \/ Format
    \/ RespondSuccess
    \/ RespondError

Spec == Init /\ [][Next]_vars

(***************************************************************************)
(* deduplicate_invoices on its own: any list of at most MaxLen invoices,   *)
(* deduplicated and then deduplicated again.                               *)
(***************************************************************************)
DedupInputs ==
    {DictSet(d, "source_page", p) :
        d \in {BaseInvoice}
              \cup {[BaseInvoice EXCEPT !.invoice_num = v] : v \in {None, ""}}
              \cup {[BaseInvoice EXCEPT !.vendor_name = ""]}
              \cup {[BaseInvoice EXCEPT !.total = v] : v \in {None, "0"}},
        p \in 1..2}

RECURSIVE SeqsUpTo(_, _)
SeqsUpTo(S, n) ==
    IF n = 0 THEN {<<>>}
    ELSE LET shorter == SeqsUpTo(S, n - 1)
         IN  shorter \cup {Append(s, x) : s \in shorter, x \in S}

InitDedup ==
    /\ pc = "apply"
    /\ merged \in SeqsUpTo(DedupInputs, MaxLen)
    /\ tmp_exists = FALSE
    /\ pages_data = <<>>
    /\ idx = 1
    /\ replies = <<>>
    /\ extracted = <<>>
    /\ deduped = <<>>
    /\ duplicates_count = 0
    /\ warnings = <<>>
    /\ result = NoResult
    /\ error = None
    /\ response = NoResult

ApplyDedup ==
    /\ pc = "apply"
    /\ LET out == deduplicate_invoices(merged)
       IN  /\ deduped' = out.deduped_invoices
           /\ duplicates_count' = out.duplicates_count
    /\ pc' = "applied"
    /\ UNCHANGED <<tmp_exists, pages_data, idx, replies, extracted, merged,
                   warnings, result, error, response>>

\* The list the first call returned is the argument of the second; result
\* holds what the second call returns.
ReapplyDedup ==
    /\ pc = "applied"
    /\ result' = deduplicate_invoices(deduped)
    /\ pc' = "reapplied"
    /\ UNCHANGED <<tmp_exists, pages_data, idx, replies, extracted, merged, deduped,
                   duplicates_count, warnings, error, response>>

NextDedup ==
    \/ ApplyDedup
    \/ ReapplyDedup

SpecDedup == InitDedup /\ [][NextDedup]_vars

(***************************************************************************)
(* The properties.  Their keys and tests are written out here from the     *)
(* statements, apart from the operators of the functions above.            *)
(***************************************************************************)
InvoiceKey(r) == <<r.invoice_num, r.vendor_name, r.invoice_date>>

InvoiceKeyWithTotal(r) == <<r.invoice_num, r.vendor_name, r.invoice_date, r.total>>

LineItemKey(item) == <<item.description, item.hsn_sac, item.quantity, item.rate>>

SuppliesValue(v) == v # None /\ v # "" /\ v # "0"

\* The positions of s whose key occurs at no earlier position.
FirstPositions(s, Key(_)) ==
    {i \in 1..Len(s) : \A j \in 1..(i - 1) : Key(s[j]) # Key(s[i])}

\* The n-th smallest member of a set of positions.
Nth(P, n) == CHOOSE i \in P : Cardinality({j \in P : j <= i}) = n

\* t holds exactly the elements of s at the positions P, in the order of s.
IsSelection(t, s, P) ==
    /\ Len(t) = Cardinality(P)
    /\ \A n \in 1..Len(t) : t[n] = s[Nth(P, n)]

\* The records of the input with the key of the merged record m, by page number.
PagesOf(m) == SelectSeq(extracted, LAMBDA e : InvoiceKey(e) = InvoiceKey(m))

RECURSIVE Concat(_)
Concat(pages) ==
    IF pages = <<>> THEN <<>> ELSE Head(pages).line_items \o Concat(Tail(pages))

\* The page of highest number among those of s that supply the field.
LastSupplying(s, field) ==
    LET P == {i \in 1..Len(s) : SuppliesValue(s[i][field])}
    IN  CHOOSE i \in P : \A j \in P : s[j].source_page <= s[i].source_page

\* C1: merge_multipage_invoices returns one merged record per distinct key
\* (invoice_num, vendor_name, invoice_date) of its input, in the order in which
\* the keys first occur; every input record goes into the merged record of its
\* key and into no other: the record is seeded from the first page of its key
\* and holds the line items of the pages of its key and of no other page.
C1_MergeIsPartitionInFirstSeenOrder ==
    pc = "dedup" =>
        /\ IsSelection([g \in 1..Len(merged) |-> InvoiceKey(merged[g])],
                       [i \in 1..Len(extracted) |-> InvoiceKey(extracted[i])],
                       FirstPositions(extracted, InvoiceKey))
        /\ \A g \in 1..Len(merged) :
              LET pages == PagesOf(merged[g])
              IN  /\ merged[g].source_page = pages[1].source_page
                  /\ {LineItemKey(x) : x \in Range(merged[g].line_items)}
                       = {LineItemKey(x) : x \in Range(Concat(pages))}

\* Three pages, the third continuing the invoice of the first.
C1_Witness ==
    /\ pc = "dedup"
    /\ Len(extracted) = 3
    /\ Len(merged) = 2
    /\ InvoiceKey(extracted[1]) = InvoiceKey(extracted[3])
    /\ InvoiceKey(extracted[1]) # InvoiceKey(extracted[2])
    /\ extracted[3].line_items = <<WidgetNoHsn>>

\* C2: the total of a merged record is the total of the page of highest number,
\* among the pages of its key, that supplies a non-empty, non-zero total, and
\* likewise its subtotal.
C2_LastSupplyingPageWins ==
    pc = "dedup" =>
        \A g \in 1..Len(merged) : \A field \in {"total", "subtotal"} :
            LET pages == PagesOf(merged[g])
            IN  (\E i \in 1..Len(pages) : SuppliesValue(pages[i][field]))
                    => merged[g][field] = pages[LastSupplying(pages, field)][field]

\* Scenario A, and a group whose last page holds a zero total.
C2_Witness ==
    /\ pc = "dedup"
    /\ Len(extracted) = 3
    /\ Len(merged) = 1
    /\ extracted[1].total = "0" /\ Len(extracted[1].line_items) = 2
    /\ extracted[2].total = "1180" /\ Len(extracted[2].line_items) = 1
    /\ extracted[3].total = None
    /\ merged[1].total = "1180"
    /\ Len(merged[1].line_items) = 3

\* C3: in a merged record no two line items share (description, hsn_sac,
\* quantity, rate), and its line items are exactly the first occurrences of
\* each such tuple in the line items of its pages concatenated in page order.
C3_LineItemsAreFirstOccurrences ==
    pc = "dedup" =>
        \A g \in 1..Len(merged) :
            LET items == merged[g].line_items
                all == Concat(PagesOf(merged[g]))
            IN  /\ \A i, j \in 1..Len(items) :
                      i # j => LineItemKey(items[i]) # LineItemKey(items[j])
                /\ IsSelection(items, all, FirstPositions(all, LineItemKey))

\* A later item that differs from an earlier one in its amount only is dropped.
C3_Witness ==
    /\ pc = "dedup"
    /\ \E g \in 1..Len(merged) :
          /\ Len(PagesOf(merged[g])) = 2
          /\ Concat(PagesOf(merged[g])) = <<Widget, Gadget, WidgetAgain, WidgetNoHsn>>
          /\ merged[g].line_items = <<Widget, Gadget, WidgetNoHsn>>

\* C4: deduplicate_invoices returns the records of its input that are the first
\* with their key (invoice_num, vendor_name, invoice_date, total), in input
\* order; it is never longer than the input and the number of records dropped
\* is the length of the input minus the length of the output.
C4_DedupKeepsFirstOfEachKey ==
    pc = "applied" =>
        /\ IsSelection(deduped, merged, FirstPositions(merged, InvoiceKeyWithTotal))
        /\ Len(deduped) <= Len(merged)
        /\ duplicates_count = Len(merged) - Len(deduped)

\* Scenario B between two other records: the second of two records with one
\* key is dropped, a record with another total is kept.
C4_Witness ==
    /\ pc = "applied"
    /\ Len(merged) = 3
    /\ InvoiceKeyWithTotal(merged[1]) = InvoiceKeyWithTotal(merged[3])
    /\ merged[1] # merged[3]
    /\ InvoiceKey(merged[1]) = InvoiceKey(merged[2])
    /\ merged[1].total # merged[2].total
    /\ deduped = <<merged[1], merged[2]>>
    /\ duplicates_count = 1

\* C5: merge grouping takes a missing invoice_num, vendor_name or invoice_date
\* and an empty one as equal: no two merged records differ only in that a field
\* of the key is missing in one and "" in the other.
C5_MissingGroupsWithEmpty ==
    pc = "dedup" =>
        \A g, h \in 1..Len(merged) :
            g # h =>
                [i \in 1..3 |-> IF InvoiceKey(merged[g])[i] = None THEN ""
                                ELSE InvoiceKey(merged[g])[i]]
                # [i \in 1..3 |-> IF InvoiceKey(merged[h])[i] = None THEN ""
                                  ELSE InvoiceKey(merged[h])[i]]

\* C6: once the service has answered a page with a connection error, no later
\* page is classified, no merge, dedup or format runs, process_invoice_pdf
\* returns nothing, and the caller gets the error.
C6_ConnectionErrorAborts ==
    \A i \in 1..Len(replies) :
        replies[i].kind = "connection_error" =>
            /\ i = Len(replies)
            /\ idx = i
            /\ pc \in {"raised", "responded"}
            /\ error = "Could not connect to Ollama"
            /\ merged = <<>> /\ deduped = <<>> /\ result = NoResult
            /\ response.status = IF pc = "responded" THEN "error" ELSE "none"

\* The second of three pages fails after the first gave an invoice.
C6_Witness ==
    /\ pc = "responded"
    /\ Len(pages_data) = 3
    /\ Len(replies) = 2
    /\ replies[2].kind = "connection_error"
    /\ Len(extracted) = 1

\* C7: a page the service answers with unparsable text is left out of the
\* output, the pipeline goes on, and exactly one diagnostic entry is emitted
\* for that page.
C7_UnparsablePageIsDiagnosed ==
    \A i \in 1..Len(replies) :
        replies[i].kind = "unparsable" =>
            /\ \A j \in 1..Len(extracted) : extracted[j].source_page # replies[i].page_num
            /\ pc # "raised" /\ error = None
            /\ Cardinality({w \in 1..Len(warnings) :
                              /\ warnings[w].kind = "ollama"
                              /\ warnings[w].page_num = replies[i].page_num}) = 1

\* C8: when the caller is answered with an error, the temporary file of the
\* request is gone.
C8_TempFileReleasedOnError ==
    response.status = "error" => ~tmp_exists

\* C9: deduplicate_invoices applied to its own output returns it unchanged.
C9_DedupIsIdempotent ==
    pc = "reapplied" =>
        /\ result.deduped_invoices = deduped
        /\ result.duplicates_count = 0

\* The first call dropped two of three records with one key.
C9_Witness ==
    /\ pc = "reapplied"
    /\ Len(merged) = 3
    /\ Len(deduped) = 1
    /\ result.deduped_invoices = deduped

\* C10: in process_invoice_pdf the dedup stage removes nothing: what it returns
\* is what the merge stage returned, and it counts no duplicate.
C10_DedupAfterMergeRemovesNothing ==
    pc = "format" => deduped = merged /\ duplicates_count = 0

\* Two merged invoices with the same total, vendor and date.
C10_Witness ==
    /\ pc = "format"
    /\ Len(merged) = 2
    /\ merged[1].total = merged[2].total
    /\ merged[1].vendor_name = merged[2].vendor_name
    /\ merged[1].invoice_date = merged[2].invoice_date
    /\ deduped = merged

====
